---- MODULE Spec2Model ----
(***************************************************************************)
(* Model of taskcluster/glean_taskgraph/transforms/script_to_run_task.py.  *)
(*                                                                         *)
(* build_task is a Python generator: a consumer drives it with next(), and *)
(* between two yields it runs the statements of lines 22-28 in order.  The *)
(* task records are Python dicts held by reference, so the model keeps a   *)
(* heap of record objects and the input sequence is a sequence of object   *)
(* references (the same object may occur at more than one position).       *)
(*                                                                         *)
(* A Python string is modelled as a sequence of one-character strings, so  *)
(* that formatting, line splitting and prefix tests are computed on the    *)
(* characters.                                                             *)
(***************************************************************************)
EXTENDS Integers, Sequences, FiniteSets, TLC

\* ---------------------------------------------------------------- bounds
MaxObjs == 2      \* distinct record objects in the heap
MaxTasks == 3     \* length of the input sequence
MaxLines == 3     \* lines of a script of the single-record inputs

\* --------------------------------------------------------------- strings
NL == "\n"

Terminator == <<"S","C","R","I","P","T">>

\* The format string of line 16.
Template == <<
  "c","a","t"," ","<","<","'","S","C","R","I","P","T","'"," ",">"," ",".",
  ".","/","s","c","r","i","p","t",".","s","h"," ","&","&"," ","b","a","s",
  "h"," ","-","e"," ",".",".","/","s","c","r","i","p","t",".","s","h","\n",
  "{","}","\n","S","C","R","I","P","T" >>

BinBash == <<"/","b","i","n","/","b","a","s","h">>
Login == <<"-","-","l","o","g","i","n">>
DashC == <<"-","c">>

\* str.format with one positional argument: the first replacement field
\* "{}" of the format string is replaced by the argument, unchanged.
RECURSIVE Format(_, _)
Format(tpl, arg) ==
  IF Len(tpl) < 2 THEN tpl
  ELSE IF tpl[1] = "{" /\ tpl[2] = "}"
       THEN arg \o SubSeq(tpl, 3, Len(tpl))
       ELSE <<tpl[1]>> \o Format(Tail(tpl), arg)

\* ------------------------------------------------ lines and the heredoc
\* The lines of a string: the pieces between newline characters.
RECURSIVE SplitLines(_)
SplitLines(s) ==
  IF \A i \in 1..Len(s) : s[i] # NL THEN <<s>>
  ELSE LET p == CHOOSE i \in 1..Len(s) :
                  s[i] = NL /\ \A j \in 1..(i - 1) : s[j] # NL
       IN <<SubSeq(s, 1, p - 1)>> \o SplitLines(SubSeq(s, p + 1, Len(s)))

RECURSIVE JoinLines(_)
JoinLines(ls) ==
  IF ls = <<>> THEN <<>>
  ELSE IF Len(ls) = 1 THEN ls[1]
  ELSE ls[1] \o <<NL>> \o JoinLines(Tail(ls))

HasScriptLine(s) ==
  \E i \in 1..Len(SplitLines(s)) : SplitLines(s)[i] = Terminator

\* The heredoc body as the shell reads it from the "-c" string: the lines
\* after the first one, up to the first line that is the terminator.
RECURSIVE UpToTerminator(_)
UpToTerminator(ls) ==
  IF ls = <<>> THEN <<>>
  ELSE IF ls[1] = Terminator THEN <<>>
  ELSE <<ls[1]>> \o UpToTerminator(Tail(ls))

HeredocBody(cmdstr) == JoinLines(UpToTerminator(Tail(SplitLines(cmdstr))))

IsPrefix(p, s) == Len(p) <= Len(s) /\ SubSeq(s, 1, Len(p)) = p
IsStrictPrefix(p, s) == IsPrefix(p, s) /\ Len(p) < Len(s)

\* --------------------------------------------------------- the formatter
\* A formatter that strips the surrounding whitespace of the script.
RECURSIVE Strip(_)
Strip(s) ==
  IF s = <<>> THEN s
  ELSE IF s[1] \in {NL, " "} THEN Strip(Tail(s))
  ELSE IF s[Len(s)] \in {NL, " "} THEN Strip(SubSeq(s, 1, Len(s) - 1))
  ELSE s

script_to_bash_command_strip(script) ==
  <<BinBash, Login, DashC, Format(Template, Strip(script))>>

\* A formatter whose format string has no newline before the terminator.
TemplateNoNewline == SubSeq(Template, 1, Len(Template) - 7) \o Terminator

script_to_bash_command_nonl(script) ==
  <<BinBash, Login, DashC, Format(TemplateNoNewline, script)>>

\* A formatter that refuses a script holding a terminator line (no command).
script_to_bash_command_checked(script) ==
  IF HasScriptLine(script) THEN <<>>
  ELSE <<BinBash, Login, DashC, Format(Template, script)>>

\* script_to_bash_command, lines 11-17.
script_to_bash_command(script) ==
  <<BinBash, Login, DashC, Format(Template, script)>>

\* ---------------------------------------------------------------- inputs
Objects == 1..MaxObjs
NoObj == 0

ScriptLines == { <<>>, <<"a">>, Terminator, <<" ">> \o Terminator }

RECURSIVE LineSeqs(_)
LineSeqs(n) ==
  IF n = 0 THEN { <<>> }
  ELSE LineSeqs(n - 1) \cup
       { Append(ls, l) : ls \in { x \in LineSeqs(n - 1) : Len(x) = n - 1 },
                         l \in ScriptLines }

\* Scripts of the single-record inputs: up to MaxLines lines.
Scripts == { JoinLines(ls) : ls \in LineSeqs(MaxLines) \ { <<>> } }

\* Scripts of the records of the multi-record inputs.
ShortScripts == { <<>>, <<"a">>, Terminator }

OldCommand == << <<"o","l","d">> >>

\* A run mapping: a Python dict, as a function on the keys it contains.
RunOf(hasScript, s, hasCommand) ==
  [k \in {"using"} \cup (IF hasScript THEN {"script"} ELSE {})
                   \cup (IF hasCommand THEN {"command"} ELSE {}) |->
     CASE k = "using" -> <<"r","u","n","-","t","a","s","k">>
       [] k = "script" -> s
       [] k = "command" -> OldCommand]

RunsOver(S) ==
  { RunOf(hs, s, hc) : hs \in {TRUE}, s \in S, hc \in BOOLEAN } \cup
  { RunOf(FALSE, <<>>, hc) : hc \in BOOLEAN }

TaskOf(o, run) == [label |-> o, run |-> run]

Blank(o) == TaskOf(o, RunOf(FALSE, <<>>, FALSE))

\* Input sequences name the objects in order of first occurrence (object
\* identities are arbitrary addresses).
InOrder(ts) ==
  \A i \in 1..Len(ts) :
     ts[i] = 1 \/ \E j \in 1..(i - 1) : ts[j] = ts[i] - 1

RECURSIVE SeqsUpTo(_)
SeqsUpTo(n) ==
  IF n = 0 THEN { <<>> }
  ELSE SeqsUpTo(n - 1) \cup
       { Append(ts, o) : ts \in { x \in SeqsUpTo(n - 1) : Len(x) = n - 1 },
                         o \in Objects }

InputSeqs == { ts \in SeqsUpTo(MaxTasks) : InOrder(ts) }

Used(ts) == { ts[i] : i \in 1..Len(ts) }

\* ----------------------------------------------------------------- state
VARIABLES
  heap,          \* record object -> its current value
  tasks,         \* the input sequence: references to record objects
  config,        \* the configuration object
  pc,            \* position of the generator
  idx,           \* records taken from the input so far
  task,          \* local variable task (a reference)
  script,        \* local variable script
  bash_command,  \* local variable bash_command
  out,           \* the references yielded so far, in order
  result,        \* what the consumer's latest next() call returned
  orig           \* the heap as the input was handed over

vars == <<heap, tasks, config, pc, idx, task, script, bash_command, out,
          result, orig>>

Config0 == [kind |-> "script"]

InitLocals ==
  /\ config = Config0
  /\ pc = "start"
  /\ idx = 0
  /\ task = NoObj
  /\ script = <<>>
  /\ bash_command = <<>>
  /\ out = <<>>
  /\ result = "none"

\* Several records, possibly the same object at several positions.
InitPipeline ==
  /\ tasks \in InputSeqs
  /\ heap \in { h \in [Objects -> { TaskOf(o, r) : o \in Objects,
                                                  r \in RunsOver(ShortScripts) }] :
                  \A o \in Objects :
                     /\ h[o].label = o
                     /\ o \notin Used(tasks) => h[o] = Blank(o) }

\* One record, with a script of several lines.
InitSingle ==
  /\ tasks = <<1>>
  /\ \E r \in RunsOver(Scripts) :
        heap = [o \in Objects |-> IF o = 1 THEN TaskOf(o, r) ELSE Blank(o)]

Init ==
  /\ InitPipeline \/ InitSingle
  /\ orig = heap
  /\ InitLocals

\* --------------------------------------------------------------- actions
\* The consumer calls next() on the generator, which is not running: it
\* starts (or resumes after the yield of line 28) and goes to the loop head.
CallNext ==
  /\ pc \in {"start", "suspended"}
  /\ pc' = "for"
  /\ result' = "pending"
  /\ UNCHANGED <<heap, tasks, config, idx, task, script, bash_command, out,
                 orig>>

\* next() on a generator that has returned or raised: StopIteration.
CallNextFinished ==
  /\ pc \in {"done", "raised"}
  /\ result' = "StopIteration"
  /\ UNCHANGED <<heap, tasks, config, pc, idx, task, script, bash_command,
                 out, orig>>

\* A loop head that takes the next record without a pending request.
ForNextEager ==
  /\ pc \in {"for", "suspended"}
  /\ IF idx < Len(tasks)
     THEN /\ idx' = idx + 1
          /\ task' = tasks[idx + 1]
          /\ pc' = "pop"
          /\ result' = result
     ELSE /\ pc' = "done"
          /\ result' = "StopIteration"
          /\ UNCHANGED <<idx, task>>
  /\ UNCHANGED <<heap, tasks, config, script, bash_command, out, orig>>

\* Lines 22-23: take the next record of the input, or finish.
ForNext ==
  /\ pc = "for"
  /\ IF idx < Len(tasks)
     THEN /\ idx' = idx + 1
          /\ task' = tasks[idx + 1]
          /\ pc' = "pop"
          /\ result' = result
     ELSE /\ pc' = "done"
          /\ result' = "StopIteration"
          /\ UNCHANGED <<idx, task>>
  /\ UNCHANGED <<heap, tasks, config, script, bash_command, out, orig>>

Without(run, key) == [k \in (DOMAIN run) \ {key} |-> run[k]]

With(run, key, val) ==
  [k \in (DOMAIN run) \cup {key} |-> IF k = key THEN val ELSE run[k]]

\* A pop with a default: a missing script is taken to be empty.
PopDefault ==
  /\ pc = "pop"
  /\ script' = IF "script" \in DOMAIN heap[task].run
               THEN heap[task].run["script"] ELSE <<>>
  /\ heap' = [heap EXCEPT ![task].run = Without(@, "script")]
  /\ pc' = "fmt"
  /\ UNCHANGED <<result, tasks, config, idx, task, bash_command, out, orig>>

\* A lookup that leaves the script in the mapping.
PopKeep ==
  /\ pc = "pop"
  /\ IF "script" \in DOMAIN heap[task].run
     THEN /\ script' = heap[task].run["script"]
          /\ pc' = "fmt"
          /\ result' = result
     ELSE /\ pc' = "raised"
          /\ result' = "KeyError"
          /\ UNCHANGED script
  /\ UNCHANGED <<heap, tasks, config, idx, task, bash_command, out, orig>>

\* A pop that writes to the record before it fails.
PopClobber ==
  /\ pc = "pop"
  /\ IF "script" \in DOMAIN heap[task].run
     THEN /\ script' = heap[task].run["script"]
          /\ heap' = [heap EXCEPT ![task].run = Without(@, "script")]
          /\ pc' = "fmt"
          /\ result' = result
     ELSE /\ pc' = "raised"
          /\ result' = "KeyError"
          /\ heap' = [heap EXCEPT ![task].run = With(@, "command", <<>>)]
          /\ UNCHANGED script
  /\ UNCHANGED <<tasks, config, idx, task, bash_command, out, orig>>

\* Line 24: task["run"].pop("script"); KeyError when the key is missing.
\* The exception is not caught in build_task: the generator ends and the
\* consumer's next() call raises it.
Pop ==
  /\ pc = "pop"
  /\ IF "script" \in DOMAIN heap[task].run
     THEN /\ script' = heap[task].run["script"]
          /\ heap' = [heap EXCEPT ![task].run = Without(@, "script")]
          /\ pc' = "fmt"
          /\ result' = result
     ELSE /\ pc' = "raised"
          /\ result' = "KeyError"
          /\ UNCHANGED <<script, heap>>
  /\ UNCHANGED <<tasks, config, idx, task, bash_command, out, orig>>

\* A formatter call that keeps the command of an earlier iteration.
FormatCommandCached ==
  /\ pc = "fmt"
  /\ bash_command' = IF bash_command # <<>> THEN bash_command
                     ELSE script_to_bash_command(script)
  /\ pc' = "set"
  /\ UNCHANGED <<heap, tasks, config, idx, task, script, out, result, orig>>

\* Line 25.
FormatCommand ==
  /\ pc = "fmt"
  /\ bash_command' = script_to_bash_command(script)
  /\ pc' = "set"
  /\ UNCHANGED <<heap, tasks, config, idx, task, script, out, result, orig>>

\* An assignment that replaces the whole run mapping.
SetCommandReplace ==
  /\ pc = "set"
  /\ heap' = [heap EXCEPT ![task].run =
                 [k \in {"command"} |-> bash_command]]
  /\ pc' = "yield"
  /\ UNCHANGED <<tasks, config, idx, task, script, bash_command, out, result,
                 orig>>

\* Line 26: task["run"]["command"] = bash_command.
SetCommand ==
  /\ pc = "set"
  /\ heap' = [heap EXCEPT ![task].run = With(@, "command", bash_command)]
  /\ pc' = "yield"
  /\ UNCHANGED <<tasks, config, idx, task, script, bash_command, out, result,
                 orig>>

\* A yield that emits the record twice.
YieldTwice ==
  /\ pc = "yield"
  /\ out' = out \o <<task, task>>
  /\ result' = "yielded"
  /\ pc' = "suspended"
  /\ UNCHANGED <<heap, tasks, config, idx, task, script, bash_command, orig>>

\* Line 28: yield task; the generator is suspended until the next request.
Yield ==
  /\ pc = "yield"
  /\ out' = Append(out, task)
  /\ result' = "yielded"
  /\ pc' = "suspended"
  /\ UNCHANGED <<heap, tasks, config, idx, task, script, bash_command, orig>>

Next ==
  \/ CallNext
  \/ CallNextFinished
  \/ ForNext
  \/ Pop
  \/ FormatCommand
  \/ SetCommand
  \/ Yield

Spec == Init /\ [][Next]_vars

\* ---------------------------------------------------------------- claims
\* The fixed text before and after the script in the "-c" string.
Prefix == <<
  "c","a","t"," ","<","<","'","S","C","R","I","P","T","'"," ",">"," ",".",
  ".","/","s","c","r","i","p","t",".","s","h"," ","&","&"," ","b","a","s",
  "h"," ","-","e"," ",".",".","/","s","c","r","i","p","t",".","s","h","\n" >>

Suffix == <<"\n","S","C","R","I","P","T">>

Emitted == 1..Len(out)

Run(o) == heap[o].run
OrigRun(o) == orig[o].run

\* C1: every emitted record has no run.script and has a run.command of
\* exactly four strings that starts "/bin/bash", "--login", "-c", whether or
\* not the record had a run.command in the input.
C1_EmittedShape ==
  \A i \in Emitted :
     /\ "script" \notin DOMAIN Run(out[i])
     /\ "command" \in DOMAIN Run(out[i])
     /\ Len(Run(out[i])["command"]) = 4
     /\ Run(out[i])["command"][1] = BinBash
     /\ Run(out[i])["command"][2] = Login
     /\ Run(out[i])["command"][3] = DashC

C1_Witness ==
  \E i \in Emitted : "command" \in DOMAIN OrigRun(out[i])

\* C2: the formatter returns ["/bin/bash", "--login", "-c", P + s + T] with
\* the script s verbatim, and the command build_task stores in a record whose
\* run.script was s is that sequence.
C2_CommandIsVerbatim ==
  /\ pc \in {"set", "yield"} =>
        bash_command = <<BinBash, Login, DashC, Prefix \o script \o Suffix>>
  /\ pc = "yield" => Run(task)["command"] = bash_command
  /\ \A i \in Emitted :
        Run(out[i])["command"] =
          <<BinBash, Login, DashC,
            Prefix \o OrigRun(out[i])["script"] \o Suffix>>

C2_Witness ==
  \E i \in Emitted :
     /\ Len(SplitLines(OrigRun(out[i])["script"])) = 2
     /\ Run(out[i])["command"][4] =
          Prefix \o OrigRun(out[i])["script"] \o Suffix

\* C3: when the record reached has no run.script, the generator raises
\* KeyError to the consumer's next() call; the error is not recovered (the
\* generator stays ended and yields nothing more) and no record is yielded
\* for that task.
C3_MissingScriptRaises ==
  /\ [](pc = "raised" => Len(out) = idx - 1 /\ "script" \notin DOMAIN Run(task))
  /\ [][ (pc = "pop" /\ "script" \notin DOMAIN Run(task)) =>
            (pc' = "raised" /\ result' = "KeyError" /\ out' = out) ]_vars
  /\ [][ pc = "raised" => (pc' = "raised" /\ out' = out) ]_vars

C3_Witness ==
  /\ pc = "raised"
  /\ result = "KeyError"
  /\ idx >= 2
  /\ Len(out) = idx - 1

\* Position i lacks run.script in the input.
LacksInInput(i) == "script" \notin DOMAIN OrigRun(tasks[i])

\* Position i lacks run.script when it is taken: it lacked it in the input,
\* or the same record object stands at an earlier position.
LacksWhenTaken(i) ==
  LacksInInput(i) \/ \E j \in 1..(i - 1) : tasks[j] = tasks[i]

Transformed(o) ==
  /\ "script" \notin DOMAIN Run(o)
  /\ "command" \in DOMAIN Run(o)
  /\ Run(o)["command"] = script_to_bash_command(OrigRun(o)["script"])

C5_Streaming ==
  /\ [](idx - Len(out) \in {0, 1})
  /\ [](pc = "start" => idx = 0 /\ heap = orig)
  /\ [][ (idx' # idx \/ heap' # heap) => result = "pending" ]_vars
  /\ [][ idx' # idx => (idx' = idx + 1 /\ Len(out) = idx) ]_vars
  /\ [][ (pc \in {"done", "raised"}) =>
            (pc' = pc /\ out' = out /\ idx' = idx /\ heap' = heap) ]_vars
  /\ [][ pc = "done" => result' = "StopIteration" ]_vars

C5_Witness ==
  /\ pc = "yield"
  /\ idx >= 2
  /\ idx = Len(out) + 1
  /\ result = "pending"

OtherKeys(run) == [k \in (DOMAIN run) \ {"script", "command"} |-> run[k]]

\* C6: the transform changes nothing of a record except run.script and
\* run.command, and never writes the configuration object.
C6_Frame ==
  /\ config = Config0
  /\ \A o \in Objects :
        /\ DOMAIN heap[o] = DOMAIN orig[o]
        /\ heap[o].label = orig[o].label
        /\ OtherKeys(Run(o)) = OtherKeys(OrigRun(o))

C6_Witness ==
  \E i \in Emitted :
     /\ heap[out[i]] # orig[out[i]]
     /\ "using" \in DOMAIN Run(out[i])

\* C7: for a script with no line equal to SCRIPT, the heredoc body read from
\* the fourth element of the command is the script, unchanged.
C7_RoundTrip ==
  /\ (pc \in {"set", "yield"} /\ ~HasScriptLine(script)) =>
        HeredocBody(bash_command[4]) = script
  /\ \A i \in Emitted :
        ~HasScriptLine(OrigRun(out[i])["script"]) =>
           HeredocBody(Run(out[i])["command"][4]) = OrigRun(out[i])["script"]

C7_Witness ==
  \E i \in Emitted :
     /\ ~HasScriptLine(OrigRun(out[i])["script"])
     /\ Len(SplitLines(OrigRun(out[i])["script"])) = 3
     /\ HeredocBody(Run(out[i])["command"][4]) = OrigRun(out[i])["script"]

\* C8: a script with a line equal to SCRIPT is not rejected: the formatter
\* returns the four-element command and the record is emitted, the only
\* error being the missing key; the heredoc body read from the command is
\* then a strict prefix of the script, and the round trip fails for exactly
\* the scripts with such a line.
C8_TerminatorNotRejected ==
  /\ pc \in {"set", "yield"} => Len(bash_command) = 4
  /\ pc = "raised" => "script" \notin DOMAIN Run(task)
  /\ result \in {"none", "pending", "yielded", "KeyError", "StopIteration"}
  /\ \A i \in Emitted :
        LET s == OrigRun(out[i])["script"]
            c == Run(out[i])["command"]
        IN /\ Len(c) = 4
           /\ HasScriptLine(s) => IsStrictPrefix(HeredocBody(c[4]), s)
           /\ (HeredocBody(c[4]) # s) <=> HasScriptLine(s)

C8_Witness ==
  \E i \in Emitted :
     /\ HasScriptLine(OrigRun(out[i])["script"])
     /\ Len(Run(out[i])["command"]) = 4
     /\ HeredocBody(Run(out[i])["command"][4]) # <<>>

EarlierObjects == { tasks[k] : k \in 1..idx }

Completed(i) ==
  i < idx \/ (i = idx /\ pc \in {"for", "suspended", "raised", "done"})

Outcome(i) ==
  IF i <= Len(out)
  THEN [kind |-> "command", value |-> Run(tasks[i])["command"]]
  ELSE [kind |-> "KeyError", value |-> <<>>]

OutcomeOf(run) ==
  IF "script" \in DOMAIN run
  THEN [kind |-> "command", value |-> script_to_bash_command(run["script"])]
  ELSE [kind |-> "KeyError", value |-> <<>>]

====
